---- MODULE Spec2Model ----
(***************************************************************************)
(* Sticker extraction (cropFeatheredStickers) of sliterok/sticker-gpt.      *)
(*                                                                         *)
(* The repository holds three versions of cropFeatheredStickers:           *)
(*   "adaptive"  src/unnamed/part_001  (url, featherPx); 3-channel         *)
(*               flood-fill fallback; grid size 3 or 2 from contour count  *)
(*   "grid"      src/unnamed/part_002  (url, gridRows, gridCols,           *)
(*               featherPx); 4-channel input only                          *)
(*   "script"    src/index.ts  (inputPath, outputDir, gridRows, gridCols,  *)
(*               featherPx); 4-channel input only; mask drawn from the     *)
(*               contours; writes sticker_<idx+1>.webp files               *)
(* One run of the function is a state machine: decode/normalise, build the *)
(* cleaned mask and find contours, cluster the contours on the grid, then  *)
(* one step per grid cell, then return.  The OpenCV calls are modelled by  *)
(* what OpenCV computes for the arguments the source passes.               *)
(*                                                                         *)
(* A pixel is <<x, y>>, 0-based.  A binary mask (0/255) is the set of its   *)
(* 255 pixels.  A Mat is [w, h, ch, px] with px[p] the tuple of samples.   *)
(***************************************************************************)
EXTENDS Integers, Sequences, FiniteSets, TLC

(***************************************************************************)
(* Bounds of the model.                                                    *)
(***************************************************************************)
MaxSide == 7
MaxGrid == 2
MaxFeather == 1

(***************************************************************************)
(* Small helpers.                                                          *)
(***************************************************************************)
Min2(a, b) == IF a <= b THEN a ELSE b
SetMin(S) == CHOOSE m \in S : \A n \in S : m <= n
SetMax(S) == CHOOSE m \in S : \A n \in S : m >= n
Abs(i) == IF i < 0 THEN -i ELSE i

Pixels(w, h) == (0..(w - 1)) \X (0..(h - 1))

\* The same set, enumerated once (TLC otherwise re-evaluates the defining
\* predicate at every membership test).
Explicit(S) == {x : x \in S}

(***************************************************************************)
(* cv.getStructuringElement(cv.MORPH_ELLIPSE, new cv.Size(5, 5)): the       *)
(* offsets of the set elements from the anchor (the centre).  OpenCV gives *)
(*      0 0 1 0 0                                                          *)
(*      1 1 1 1 1                                                          *)
(*      1 1 1 1 1                                                          *)
(*      1 1 1 1 1                                                          *)
(*      0 0 1 0 0                                                          *)
(***************************************************************************)
KernelSize == 5
KernelRadius == KernelSize \div 2
StructuringElement ==
    {o \in (-KernelRadius..KernelRadius) \X (-KernelRadius..KernelRadius) :
        Abs(o[2]) < KernelRadius \/ o[1] = 0}

(***************************************************************************)
(* morphologyEx(kernel, cv.MORPH_OPEN): erosion, then dilation.  The border *)
(* is BORDER_CONSTANT with OpenCV's default morphology border value, which *)
(* makes pixels outside the Mat neutral: they never erode a pixel and      *)
(* never dilate into it.                                                   *)
(***************************************************************************)
Erode(M, w, h) ==
    Explicit({p \in M : \A o \in StructuringElement :
                LET q == <<p[1] + o[1], p[2] + o[2]>>
                IN  q \in Pixels(w, h) => q \in M})

Dilate(M, w, h) ==
    Explicit({p \in Pixels(w, h) : \E o \in StructuringElement :
                <<p[1] + o[1], p[2] + o[2]>> \in M})

MorphOpen(M, w, h) == Dilate(Erode(M, w, h), w, h)

(***************************************************************************)
(* threshold(1, 255, cv.THRESH_BINARY) of one channel: 255 where the value *)
(* is greater than thresh, else 0.                                         *)
(***************************************************************************)
Thresh == 1
ThresholdBinary_AtLeast(plane, w, h) == Explicit({p \in Pixels(w, h) : plane[p] >= Thresh})
ThresholdBinary(plane, w, h) == Explicit({p \in Pixels(w, h) : plane[p] > Thresh})

(***************************************************************************)
(* findContours(cv.RETR_EXTERNAL, cv.CHAIN_APPROX_SIMPLE): one contour per *)
(* 8-connected component of the mask that does not lie inside a hole of    *)
(* another component.  A contour is modelled by the component it bounds:   *)
(* [region |-> set of pixels].  The array is ordered by the first pixel of *)
(* each component in raster order; the program reads only its length and   *)
(* the bounding rectangles, so the order does not reach the results.       *)
(***************************************************************************)
Adjacent8(p, q) == Abs(p[1] - q[1]) <= 1 /\ Abs(p[2] - q[2]) <= 1
Adjacent4(p, q) == Abs(p[1] - q[1]) + Abs(p[2] - q[2]) = 1

RECURSIVE Grow8(_, _)
Grow8(S, M) ==
    LET N == Explicit({q \in M \ S : \E p \in S : Adjacent8(p, q)})
    IN  IF N = {} THEN S ELSE Grow8(Explicit(S \cup N), M)

RECURSIVE Grow4(_, _)
Grow4(S, M) ==
    LET N == Explicit({q \in M \ S : \E p \in S : Adjacent4(p, q)})
    IN  IF N = {} THEN S ELSE Grow4(Explicit(S \cup N), M)

RasterFirst(M) ==
    CHOOSE p \in M : \A q \in M : p[2] < q[2] \/ (p[2] = q[2] /\ p[1] <= q[1])

RECURSIVE ComponentsOf(_)
ComponentsOf(M) ==
    IF M = {} THEN <<>>
    ELSE LET c == Grow8({RasterFirst(M)}, M)
         IN  <<c>> \o ComponentsOf(M \ c)

\* The pixels of the w x h Mat that region C encloses: those not in C that
\* no 4-connected path of pixels outside C joins to the frame of the Mat.
\* Every pixel outside the bounding box of C is joined to the frame, so the
\* search stays inside the box.
BoxOf(C) ==
    LET xs == {p[1] : p \in C}
        ys == {p[2] : p \in C}
    IN  [x0 |-> SetMin(xs), x1 |-> SetMax(xs), y0 |-> SetMin(ys), y1 |-> SetMax(ys)]

Enclosed(C, w, h) ==
    LET b     == BoxOf(C)
        free  == Explicit(((b.x0..b.x1) \X (b.y0..b.y1)) \ C)
        frame == Explicit({p \in free : p[1] = b.x0 \/ p[2] = b.y0 \/ p[1] = b.x1 \/ p[2] = b.y1})
    IN  Explicit(free \ Grow4(frame, free))

\* Region c lies in a hole of region d.
Nested(c, d, w, h) ==
    LET bc == BoxOf(c)
        bd == BoxOf(d)
    IN  /\ bd.x0 < bc.x0 /\ bc.x1 < bd.x1 /\ bd.y0 < bc.y0 /\ bc.y1 < bd.y1
        /\ c \subseteq Enclosed(d, w, h)

FindContoursExternal(M, w, h) ==
    LET comps == ComponentsOf(M)
        outer == SelectSeq(comps, LAMBDA c :
                    ~ \E i \in 1..Len(comps) : comps[i] # c /\ Nested(c, comps[i], w, h))
    IN  [i \in 1..Len(outer) |-> [region |-> outer[i]]]

(***************************************************************************)
(* c.boundingRect(): the upright rectangle of the contour's points.        *)
(***************************************************************************)
BoundingRect(c) ==
    LET xs == {p[1] : p \in c.region}
        ys == {p[2] : p \in c.region}
    IN  [x |-> SetMin(xs), y |-> SetMin(ys),
         width  |-> SetMax(xs) - SetMin(xs) + 1,
         height |-> SetMax(ys) - SetMin(ys) + 1]

(***************************************************************************)
(* gaussianBlur(new cv.Size(k, k), 0) of an 8-bit plane.  With sigma 0 and *)
(* k <= 7 OpenCV takes the kernel from its fixed table (here scaled to     *)
(* integers); the border is BORDER_REFLECT_101; the result is rounded to   *)
(* the nearest 8-bit value.                                                *)
(***************************************************************************)
GaussianKernel(k) ==
    CASE k = 1 -> <<1>>
      [] k = 3 -> <<1, 2, 1>>
      [] k = 5 -> <<1, 4, 6, 4, 1>>
      [] k = 7 -> <<2, 7, 14, 18, 14, 7, 2>>

RECURSIVE SeqSum(_)
SeqSum(s) == IF s = <<>> THEN 0 ELSE Head(s) + SeqSum(Tail(s))

RECURSIVE Reflect101(_, _)
Reflect101(i, n) ==
    IF n = 1 THEN 0
    ELSE IF i < 0 THEN Reflect101(-i, n)
    ELSE IF i >= n THEN Reflect101(2 * n - 2 - i, n)
    ELSE i

GaussianBlur(plane, w, h, k) ==
    LET ker  == GaussianKernel(k)
        r    == k \div 2
        norm == SeqSum(ker) * SeqSum(ker)
        row(p, j) == SeqSum([i \in 1..k |->
                        ker[i] * plane[<<Reflect101(p[1] + i - 1 - r, w),
                                         Reflect101(p[2] + j - 1 - r, h)>>]])
        acc(p) == SeqSum([j \in 1..k |-> ker[j] * row(p, j)])
    IN  [p \in Pixels(w, h) |-> (2 * acc(p) + norm) \div (2 * norm)]

(***************************************************************************)
(* B2.convertTo(CV_32FC1).hMul(maskF).convertTo(CV_8UC1) with              *)
(* maskF = maskBlur / 255: the colour sample times the coverage, rounded   *)
(* to the nearest 8-bit value (c * m / 255 is never half-way between two   *)
(* integers, because 255 is odd).                                          *)
(***************************************************************************)
MaxSample == 255
MulByMask_Truncated(c, m) == (c * m) \div MaxSample
MulByMask(c, m) == (2 * c * m + MaxSample) \div (2 * MaxSample)

(***************************************************************************)
(* Mats.  A Mat is [w, h, ch, px]: px[p] is the tuple of the ch samples of *)
(* pixel p (B, G, R, then alpha).                                          *)
(***************************************************************************)
AlphaIndex == 3
\* img.splitChannels()[i]: channel i (0-based) as a plane.
Channel(m, i) == [p \in Pixels(m.w, m.h) |-> m.px[p][i + 1]]

\* img.getRegion(new cv.Rect(x0, y0, w, h)) followed by splitChannels():
\* the samples of the rectangle, re-based at <<0, 0>>.
GetRegion(m, r) ==
    [w |-> r.width, h |-> r.height, ch |-> m.ch,
     px |-> [p \in Pixels(r.width, r.height) |-> m.px[<<p[1] + r.x, p[2] + r.y>>]]]

\* The 255 pixels of a binary plane, and the plane of a set of pixels.
PlaneOf(M, w, h) == [p \in Pixels(w, h) |-> IF p \in M THEN MaxSample ELSE 0]

(***************************************************************************)
(* The 3-channel fallback of the "adaptive" version: img.floodFill from    *)
(* (0,0) with FLOODFILL_MASK_ONLY | (255 << 8), loDiff = upDiff = (3,3,3). *)
(* The flags set neither FLOODFILL_FIXED_RANGE nor a connectivity, so a    *)
(* pixel is reached when a 4-neighbour already reached differs from it by  *)
(* at most the tolerance in every channel.                                 *)
(***************************************************************************)
LoDiff == 3
UpDiff == 3
WithinTolerance(from, to) ==
    \A c \in 1..3 : from[c] - LoDiff <= to[c] /\ to[c] <= from[c] + UpDiff

RECURSIVE FloodFrom(_, _)
FloodFrom(S, m) ==
    LET N == Explicit({q \in Pixels(m.w, m.h) \ S :
                \E p \in S : Adjacent4(p, q) /\ WithinTolerance(m.px[p], m.px[q])})
    IN  IF N = {} THEN S ELSE FloodFrom(Explicit(S \cup N), m)

FloodFillMask(m) == FloodFrom({<<0, 0>>}, m)

\* croppedMask.threshold(254, 255, cv.THRESH_BINARY_INV), then
\* new cv.Mat([B, G, R, alpha]).
InvThresh == 254
AddAlphaFromFloodFill_NotInverted(m) ==
    [w |-> m.w, h |-> m.h, ch |-> 4,
     px |-> [p \in Pixels(m.w, m.h) |->
                <<m.px[p][1], m.px[p][2], m.px[p][3],
                  PlaneOf(FloodFillMask(m), m.w, m.h)[p]>>]]
AddAlphaFromFloodFill(m) ==
    LET reached == FloodFillMask(m)
        alpha(p) == IF PlaneOf(reached, m.w, m.h)[p] > InvThresh THEN 0 ELSE MaxSample
    IN  [w |-> m.w, h |-> m.h, ch |-> 4,
         px |-> [p \in Pixels(m.w, m.h) |->
                    <<m.px[p][1], m.px[p][2], m.px[p][3], alpha(p)>>]]

(***************************************************************************)
(* The three versions and what each accepts.                               *)
(***************************************************************************)
Variants == {"adaptive", "grid", "script"}

\* part_001: 3 -> fallback, 4 -> as is, else throw;  part_002 and index.ts:
\* anything but 4 throws.
HasFallback(v) == v = "adaptive"
Accepts_FourOrMore(v, ch) == ch >= 4 \/ (HasFallback(v) /\ ch = 3)
Accepts(v, ch) == ch = 4 \/ (HasFallback(v) /\ ch = 3)

Normalize(v, m) == IF m.ch = 3 /\ HasFallback(v) THEN AddAlphaFromFloodFill(m) ELSE m

\* build cleaned alpha mask
CleanMask(m) == MorphOpen(ThresholdBinary(Channel(m, AlphaIndex), m.w, m.h), m.w, m.h)

\* The parameters of each version's signature.
Parameters(v) ==
    CASE v = "adaptive" -> {"url", "featherPx"}
      [] v = "grid"     -> {"url", "gridRows", "gridCols", "featherPx"}
      [] v = "script"   -> {"inputPath", "outputDir", "gridRows", "gridCols", "featherPx"}

\* const size = contours.length > 6 ? 3 : 2;
AdaptiveLimit == 6
AdaptiveSize_FromLimit(n) == IF n >= AdaptiveLimit THEN 3 ELSE 2
AdaptiveSize(n) == IF n > AdaptiveLimit THEN 3 ELSE 2

(***************************************************************************)
(* JavaScript numbers where they leave the integers: x / 0 is Infinity for *)
(* x > 0 and NaN for x = 0.  A value is [k |-> "num", v |-> n],            *)
(* [k |-> "inf"] or [k |-> "nan"].                                         *)
(***************************************************************************)
Num(n) == [k |-> "num", v |-> n]
Infinity == [k |-> "inf"]
NaN == [k |-> "nan"]

\* Math.floor((a + b / 2) / cell), the numerator held in halves.
FloorCentreDiv(a, b, cell) ==
    IF cell = 0 THEN (IF 2 * a + b = 0 THEN NaN ELSE Infinity)
    ELSE Num((2 * a + b) \div (2 * cell))

\* Math.min(v, n)
MathMin_NoClamp(v, n) == v
MathMin(v, n) ==
    IF v.k = "nan" THEN NaN
    ELSE IF v.k = "inf" THEN Num(n)
    ELSE Num(Min2(v.v, n))

\* grid-cluster contours
CellW(m, gridCols) == m.w \div gridCols
CellH(m, gridRows) == m.h \div gridRows
ColOf(c, m, gridCols) ==
    LET r == BoundingRect(c)
    IN  MathMin(FloorCentreDiv(r.x, r.width, CellW(m, gridCols)), gridCols - 1)
RowOf(c, m, gridRows) ==
    LET r == BoundingRect(c)
    IN  MathMin(FloorCentreDiv(r.y, r.height, CellH(m, gridRows)), gridRows - 1)
\* row * gridCols + col
CellIndex_ColumnMajor(c, m, gridRows, gridCols) ==
    LET row == RowOf(c, m, gridRows)
        col == ColOf(c, m, gridCols)
    IN  IF row.k = "num" /\ col.k = "num" THEN Num(col.v * gridRows + row.v) ELSE NaN
CellIndex(c, m, gridRows, gridCols) ==
    LET row == RowOf(c, m, gridRows)
        col == ColOf(c, m, gridCols)
    IN  IF row.k = "num" /\ col.k = "num" THEN Num(row.v * gridCols + col.v) ELSE NaN

(***************************************************************************)
(* Per-cell compositing.                                                   *)
(***************************************************************************)
\* union-rect of a cluster (a non-empty sequence of contours)
UnionRect_FirstOnly(cluster) == BoundingRect(cluster[1])
UnionRect(cluster) ==
    LET rects == [i \in 1..Len(cluster) |-> BoundingRect(cluster[i])]
        x0 == SetMin({rects[i].x : i \in 1..Len(rects)})
        y0 == SetMin({rects[i].y : i \in 1..Len(rects)})
        x1 == SetMax({rects[i].x + rects[i].width : i \in 1..Len(rects)})
        y1 == SetMax({rects[i].y + rects[i].height : i \in 1..Len(rects)})
    IN  [x |-> x0, y |-> y0, width |-> x1 - x0, height |-> y1 - y0]

\* part_001/part_002: the mask of the crop's own alpha channel, opened.
MaskFromCropAlpha_WholeCrop(crop) == Pixels(crop.w, crop.h)
MaskFromCropAlpha(crop) == CleanMask(crop)

\* index.ts: mask.drawFillPoly of every contour of the cluster, its points
\* moved by (-x0, -y0): the component and everything its outline encloses.
MaskFromContours(cluster, m, r) ==
    LET filled == UNION {cluster[i].region \cup Enclosed(cluster[i].region, m.w, m.h) :
                            i \in 1..Len(cluster)}
    IN  {<<p[1] - r.x, p[2] - r.y>> : p \in filled}

\* The binary mask of a crop before any opening: maskBin (part_001,
\* part_002) or the mask the contours are drawn into (index.ts).
LocalBin(v, cluster, m, r) ==
    IF v = "script" THEN MaskFromContours(cluster, m, r)
    ELSE LET crop == GetRegion(m, r)
         IN  ThresholdBinary(Channel(crop, AlphaIndex), crop.w, crop.h)

StickerMask(v, cluster, m, r) ==
    IF v = "script" THEN MaskFromContours(cluster, m, r)
    ELSE MaskFromCropAlpha(GetRegion(m, r))

\* 2) feather it
BlurKernelSize_TwoMore(f) == f * 2 + 3
BlurKernelSize(f) == f * 2 + 1
Feather(mask, w, h, f) == GaussianBlur(PlaneOf(mask, w, h), w, h, BlurKernelSize(f))

\* 3) and 4): the faded colours and the blurred mask as alpha
Composite(crop, maskBlur) ==
    [w |-> crop.w, h |-> crop.h, ch |-> 4,
     px |-> [p \in Pixels(crop.w, crop.h) |->
                <<MulByMask(crop.px[p][1], maskBlur[p]),
                  MulByMask(crop.px[p][2], maskBlur[p]),
                  MulByMask(crop.px[p][3], maskBlur[p]),
                  maskBlur[p]>>]]

\* cv.imencode(".webp", result) / cv.imwrite(..webp, result): without
\* quality parameters OpenCV writes lossless WebP, so the buffer holds the
\* size and the samples of the Mat.
EncodeWebp(m) == [format |-> "webp", w |-> m.w, h |-> m.h, data |-> m.px]

Sticker(v, cluster, m, f) ==
    LET r    == UnionRect(cluster)
        crop == GetRegion(m, r)
        mask == StickerMask(v, cluster, m, r)
    IN  EncodeWebp(Composite(crop, Feather(mask, r.width, r.height, f)))

(***************************************************************************)
(* The inputs of a run.  A decoded image is a canvas of side 1 or MaxSide  *)
(* in each direction.  Its opaque pixels are either the whole canvas or,   *)
(* at any subset of the canvas's corners, the smallest blob the opening    *)
(* keeps there (the structuring element clipped by the canvas); on top of  *)
(* that one pixel, the centre of the canvas, may be transparent, opaque or *)
(* faint.  Pixel kinds: "T" transparent white, "O" the opaque object       *)
(* colour, "F" near-white with alpha 1.                                    *)
(***************************************************************************)
Sides == {1, MaxSide}
ChannelCounts == 1..5
Kinds == {"T", "O", "F"}

Sample4(kind) ==
    CASE kind = "T" -> <<255, 255, 255, 0>>
      [] kind = "O" -> <<40, 120, 200, 255>>
      [] kind = "F" -> <<253, 254, 252, 1>>

Samples(kind, ch) == [i \in 1..ch |-> IF i <= 4 THEN Sample4(kind)[i] ELSE 0]

Corners(w, h) == {0, w - 1} \X {0, h - 1}
Blob(s, w, h) == Dilate({s}, w, h)
Centre(w, h) == <<w \div 2, h \div 2>>

Layouts(w, h) ==
    {UNION {Blob(s, w, h) : s \in S} : S \in SUBSET Corners(w, h)} \cup {Pixels(w, h)}

Picture(w, h, ch, opaque, odd) ==
    [w |-> w, h |-> h, ch |-> ch,
     px |-> [p \in Pixels(w, h) |->
                Samples(IF p = Centre(w, h) /\ odd # "-" THEN odd
                        ELSE IF p \in opaque THEN "O" ELSE "T", ch)]]

\* A sheet of separate blobs: a square canvas with the smallest interior
\* blob the opening keeps (the structuring element itself, clipped at the
\* frame) at the first n points, in raster order, of a 3 x 3 lattice whose
\* step leaves one transparent pixel between neighbouring blobs.
DefaultGrid == 3
LatticeStep == KernelSize + 1
LatticeSide == (DefaultGrid - 1) * LatticeStep + 1
LatticeRank(s) == (s[2] \div LatticeStep) * DefaultGrid + (s[1] \div LatticeStep) + 1
LatticeSeeds(n) ==
    {s \in {i * LatticeStep : i \in 0..(DefaultGrid - 1)}
          \X {i * LatticeStep : i \in 0..(DefaultGrid - 1)} : LatticeRank(s) <= n}
SheetCounts == {AdaptiveLimit, AdaptiveLimit + 1, DefaultGrid * DefaultGrid}
Sheet(n) ==
    LET opaque == UNION {Blob(s, LatticeSide, LatticeSide) : s \in LatticeSeeds(n)}
    IN  [w |-> LatticeSide, h |-> LatticeSide, ch |-> 4,
         px |-> [p \in Pixels(LatticeSide, LatticeSide) |->
                    Samples(IF p \in opaque THEN "O" ELSE "T", 4)]]

\* Images with an unsupported channel count are rejected before a sample is
\* read, so one picture of each such count is enough.
Inputs ==
    LET pictures ==
            UNION {{Picture(w, h, ch, opaque, odd) :
                        opaque \in Layouts(w, h), odd \in Kinds \cup {"-"}, ch \in {3, 4}} :
                   w \in Sides, h \in Sides}
        rejected == {Picture(1, 1, ch, {}, "-") : ch \in ChannelCounts \ {3, 4}}
        sheets   == {Sheet(n) : n \in SheetCounts}
    IN  pictures \cup rejected \cup sheets

\* The grids a caller asks for: small ones and the default of the signature.
GridSizes == (1..MaxGrid) \cup {DefaultGrid}

(***************************************************************************)
(* State of one run.                                                       *)
(***************************************************************************)
VARIABLES
    variant,    \* which version of cropFeatheredStickers runs
    featherPx,  \* parameter featherPx
    input,      \* the Mat that imdecode / imread yields for the input
    pc,         \* "start", "decoded", "contours", "cells", "done", "failed"
    err,        \* "none", or what was thrown: "format", "type", "encode"
    img,        \* let img: the normalised 4-channel Mat
    bin,        \* const bin: the thresholded alpha channel
    clean,      \* const clean: the cleaned alpha mask
    contours,   \* const contours
    rows, cols, \* the grid: gridRows, gridCols, or size (part_001)
    cells,      \* const cells: per cell the contours pushed into it
    idx,        \* the index of cells.forEach
    results,    \* the stickers produced, in order: pushed to results
                \* (part_001, part_002) or written to outputDir (index.ts)
    io          \* the kinds of I/O the run has performed

cvVars == <<variant, featherPx, input, pc, err, img, bin, clean, contours, rows, cols,
            cells, idx, results, io>>

(***************************************************************************)
(* State of the Notificator (src/notif.ts, and its older version in        *)
(* src/unnamed/part_000).  An absent id or message id is 0, an absent      *)
(* progress is -1, an absent status is "undefined".                        *)
(***************************************************************************)
VARIABLES
    nver,       \* "notif" (src/notif.ts) or "old" (src/unnamed/part_000)
    npc,        \* where the fetch cycle stands; "idle" between cycles
    active,     \* the number of fetch cycles in progress
    isFetching, \* this.isFetching
    timers,     \* pending setTimeout callbacks (this.fetchTimeoutId)
    lastCall,   \* how the latest call of the fetch method went
    lastId,     \* this.lastId
    diskId,     \* the id in last.json
    status,     \* this.status
    progress,   \* this.progress
    progressMessageId, \* this.progressMessageId
    data,       \* response.data of the cycle, newest first
    todo,       \* the items of notificationsToProcess not yet handled
    latest,     \* let latestSuccessfullyProcessedId
    task,       \* the payload whose notification is being sent
    outbox,     \* the Telegram sends of that task still to make
    retries,    \* let retries (sendWithRetry)
    swr,        \* the latest sendWithRetry call: its calls, waits and end
    log         \* what the cycle did, in order

notifVars == <<nver, npc, active, isFetching, timers, lastCall, lastId, diskId, status,
               progress, progressMessageId, data, todo, latest, task, outbox, retries,
               swr, log>>

vars == <<cvVars, notifVars>>

NoTask == [id |-> 0]
NoSend == [calls |-> <<>>, waits |-> <<>>, end |-> "none", value |-> [k |-> "none", v |-> 0]]

\* The Notificator is not part of a run of cropFeatheredStickers.
NotifOff ==
    /\ nver = "none"
    /\ npc = "off"
    /\ active = 0
    /\ isFetching = FALSE
    /\ timers = 0
    /\ lastCall = "none"
    /\ lastId = 0
    /\ diskId = 0
    /\ status = "undefined"
    /\ progress = -1
    /\ progressMessageId = 0
    /\ data = <<>>
    /\ todo = <<>>
    /\ latest = 0
    /\ task = NoTask
    /\ outbox = <<>>
    /\ retries = 0
    /\ swr = NoSend
    /\ log = <<>>

NoMat == [w |-> 0, h |-> 0, ch |-> 0, px |-> <<>>]

Init ==
    /\ variant \in Variants
    /\ featherPx \in 0..MaxFeather
    /\ input \in Inputs
    /\ rows \in (IF "gridRows" \in Parameters(variant) THEN GridSizes ELSE {0})
    /\ cols \in (IF "gridCols" \in Parameters(variant) THEN GridSizes ELSE {0})
    /\ pc = "start"
    /\ err = "none"
    /\ img = NoMat
    /\ bin = {}
    /\ clean = {}
    /\ contours = <<>>
    /\ cells = <<>>
    /\ idx = 0
    /\ results = <<>>
    /\ io = {}
    /\ NotifOff

(***************************************************************************)
(* The I/O of a run.  part_001 and part_002 get the bytes with             *)
(* await fetch(url) and hand the stickers back as buffers (cv.imencode);   *)
(* index.ts reads the file with cv.imread and writes every sticker with    *)
(* cv.imwrite.                                                             *)
(***************************************************************************)
DecodeIO(v) == IF v = "script" THEN {"file-read"} ELSE {"network"}
EncodeIO_AlwaysWrites(v) == {"file-write"}
EncodeIO(v) == IF v = "script" THEN {"file-write"} ELSE {}

(***************************************************************************)
(* fetch + imdecode (part_001, part_002) or imread (index.ts), then the    *)
(* channel check and, in part_001, the 3-channel fallback.                 *)
(***************************************************************************)
Decode ==
    /\ UNCHANGED notifVars
    /\ pc = "start"
    /\ io' = io \cup DecodeIO(variant)
    /\ IF Accepts(variant, input.ch)
       THEN /\ img' = Normalize(variant, input)
            /\ pc' = "decoded"
            /\ err' = err
       ELSE /\ pc' = "failed"
            /\ err' = "format"
            /\ img' = img
    /\ UNCHANGED <<variant, featherPx, input, bin, clean, contours, rows, cols, cells,
                   idx, results>>

(***************************************************************************)
(* build cleaned alpha mask & find contours; part_001 then derives size.   *)
(***************************************************************************)
FindContours ==
    /\ UNCHANGED notifVars
    /\ pc = "decoded"
    /\ bin' = ThresholdBinary(Channel(img, AlphaIndex), img.w, img.h)
    /\ clean' = MorphOpen(bin', img.w, img.h)
    /\ contours' = FindContoursExternal(clean', img.w, img.h)
    /\ IF variant = "adaptive"
       THEN /\ rows' = AdaptiveSize(Len(contours'))
            /\ cols' = AdaptiveSize(Len(contours'))
       ELSE UNCHANGED <<rows, cols>>
    /\ pc' = "contours"
    /\ UNCHANGED <<variant, featherPx, input, err, img, cells, idx, results, io>>

(***************************************************************************)
(* grid-cluster contours: cells[row * gridCols + col].push(c) for every    *)
(* contour.  An index that is no element of cells makes cells[...]         *)
(* undefined and the push a TypeError.                                     *)
(***************************************************************************)
RECURSIVE PushAll(_, _, _, _, _)
PushAll(acc, cs, m, gridRows, gridCols) ==
    IF cs = <<>> THEN acc
    ELSE LET i == CellIndex(Head(cs), m, gridRows, gridCols).v
         IN  PushAll([acc EXCEPT ![i + 1] = Append(@, Head(cs))],
                     Tail(cs), m, gridRows, gridCols)

Addressable(c, m, gridRows, gridCols) ==
    LET i == CellIndex(c, m, gridRows, gridCols)
    IN  i.k = "num" /\ i.v \in 0..(gridRows * gridCols - 1)

AssignCells ==
    /\ UNCHANGED notifVars
    /\ pc = "contours"
    /\ IF \A i \in 1..Len(contours) : Addressable(contours[i], img, rows, cols)
       THEN /\ cells' = PushAll([j \in 1..(rows * cols) |-> <<>>], contours, img, rows, cols)
            /\ pc' = "cells"
            /\ err' = err
       ELSE /\ pc' = "failed"
            /\ err' = "type"
            /\ cells' = cells
    /\ idx' = 0
    /\ UNCHANGED <<variant, featherPx, input, img, bin, clean, contours, rows, cols,
                   results, io>>

(***************************************************************************)
(* One iteration of cells.forEach((cluster, idx) => ...).  An empty        *)
(* cluster returns at once.  Nothing catches what the body throws: when    *)
(* the encoder throws (libwebp refuses an image, memory runs out) the      *)
(* exception leaves cropFeatheredStickers and results is never returned.   *)
(***************************************************************************)
Produced(v, cell, cluster, m, f) ==
    [cell   |-> cell,
     region |-> UnionRect(cluster),
     sink   |-> IF v = "script" THEN "file" ELSE "buffer",
     maskBin |-> LocalBin(v, cluster, m, UnionRect(cluster)),
     image  |-> Sticker(v, cluster, m, f)]

\* The source Mat after one cell was composited.  crop = img.getRegion(..)
\* shares the samples of img, but the body only reads it: splitChannels,
\* threshold, morphologyEx, gaussianBlur, convertTo, hMul and div each
\* return a new Mat, and the result is a new Mat too.
SourceAfter_WrittenThrough(m, r, image) ==
    [m EXCEPT !.px = [p \in Pixels(m.w, m.h) |->
        IF /\ r.x <= p[1] /\ p[1] < r.x + r.width
           /\ r.y <= p[2] /\ p[2] < r.y + r.height
        THEN image.data[<<p[1] - r.x, p[2] - r.y>>]
        ELSE m.px[p]]]
SourceAfter(m, r, image) == m

\* forEach calls back for index 0, 1, ... in ascending order: the k-th call
\* (k from 0) of n is for cell k.
CellAt_Descending(k, n) == n - 1 - k
CellAt(k, n) == k

\* if (!cluster.length) return;
SkipsCell_SingleToo(cluster) == Len(cluster) <= 1
SkipsCell(cluster) == Len(cluster) = 0

ProcessCell ==
    /\ UNCHANGED notifVars
    /\ pc = "cells"
    /\ idx < Len(cells)
    /\ LET cell    == CellAt(idx, Len(cells))
           cluster == cells[cell + 1]
       IN  IF SkipsCell(cluster)
           THEN /\ idx' = idx + 1
                /\ UNCHANGED <<pc, err, results, io, img>>
           ELSE \E encoded \in BOOLEAN :
                IF encoded
                THEN /\ results' = Append(results, Produced(variant, cell, cluster, img, featherPx))
                     /\ img' = SourceAfter(img, UnionRect(cluster),
                                           Sticker(variant, cluster, img, featherPx))
                     /\ io' = io \cup EncodeIO(variant)
                     /\ idx' = idx + 1
                     /\ UNCHANGED <<pc, err>>
                ELSE /\ pc' = "failed"
                     /\ err' = "encode"
                     /\ UNCHANGED <<idx, results, io, img>>
    /\ UNCHANGED <<variant, featherPx, input, bin, clean, contours, rows, cols, cells>>

\* return results;
Return ==
    /\ UNCHANGED notifVars
    /\ pc = "cells"
    /\ idx = Len(cells)
    /\ pc' = "done"
    /\ UNCHANGED <<variant, featherPx, input, err, img, bin, clean, contours, rows, cols,
                   cells, idx, results, io>>

Next == Decode \/ FindContours \/ AssignCells \/ ProcessCell \/ Return

Spec == Init /\ [][Next]_vars

(***************************************************************************)
(* The Notificator.  Two versions: "notif" is src/notif.ts, "old" is       *)
(* src/unnamed/part_000.  One fetch cycle is a sequence of steps, one per  *)
(* awaited call (the API request, each Telegram call, each wait, the write *)
(* of last.json): the outcome of the call is the environment's choice.     *)
(* Task ids are numbers, a newer task having the larger id; the interval   *)
(* of the timer (getNextInterval) is not modelled, only that a timer is    *)
(* pending.                                                                *)
(***************************************************************************)
MaxId == 2
MaxBatch == 2
MaxStickers == 1
MaxRetryAfter == 2
MaxMsgId == 1
MaxTimers == 2

NVersions == {"notif", "old"}
TaskIds == 1..MaxId
MsgIds == 1..MaxMsgId

\* progress_pct, in thousandths; -1 is null.
PctValues == {0, 4, 5}
NoPct == -1

\* One item of response.data.  sends is the number of Telegram messages the
\* task's generations need (stickers cut from the image, or one media
\* group); crop says whether fetching and cutting the image throws.
Payload(id, st, type, sends, crop, pct) ==
    [payload |-> TRUE, id |-> id, status |-> st, type |-> type, sends |-> sends,
     crop |-> crop, pct |-> pct]
NoPayload(id) ==
    [payload |-> FALSE, id |-> id, status |-> "undefined", type |-> "image_gen",
     sends |-> 0, crop |-> "ok", pct |-> NoPct]

\* The shapes of the newest item, and of an older one: progress_pct is read
\* from response.data[0] only, and a task that is not succeeded is skipped
\* whatever its status.
ItemsOf(id, newest) ==
    {NoPayload(id), Payload(id, "queued", "image_gen", 0, "ok", NoPct)}
    \cup {Payload(id, "succeeded", "image_gen", n, "ok", NoPct) : n \in 0..MaxStickers}
    \cup {Payload(id, "succeeded", "image_gen", 0, "throws", NoPct),
          Payload(id, "succeeded", "video_gen", 1, "ok", NoPct)}
    \cup (IF newest
          THEN {Payload(id, "failed", "image_gen", 0, "ok", NoPct)}
               \cup {Payload(id, "running", "image_gen", 0, "ok", pct) :
                        pct \in PctValues \cup {NoPct}}
          ELSE {})

\* response.data: the API returns the newest first.
RECURSIVE BatchesFrom(_, _, _)
BatchesFrom(top, n, newest) ==
    IF n = 0 \/ top = 0 THEN {<<>>}
    ELSE {<<>>} \cup UNION {{<<item>> \o rest : item \in ItemsOf(id, newest),
                                               rest \in BatchesFrom(id - 1, n - 1, FALSE)} :
                            id \in 1..top}
Batches == BatchesFrom(MaxId, MaxBatch, TRUE)

\* What await fetch(apiUrl) and req.json() come to.
Responses ==
    {[kind |-> "error", last_id |-> "null", data |-> <<>>],
     [kind |-> "invalid", last_id |-> "string", data |-> <<>>],
     [kind |-> "ok", last_id |-> "null", data |-> <<>>]}
    \cup {[kind |-> "ok", last_id |-> "string", data |-> b] : b \in Batches}

\* The outcome of one call of a Telegram method.
Outcomes ==
    {[k |-> "ok", v |-> m] : m \in MsgIds}
    \cup {[k |-> "rate", v |-> n] : n \in 0..MaxRetryAfter}
    \cup {[k |-> "error", v |-> 400], [k |-> "error", v |-> 403]}

RECURSIVE Reverse(_)
Reverse_AsReturned(q) == q
Reverse(q) == IF q = <<>> THEN <<>> ELSE Append(Reverse(Tail(q)), Head(q))

Logged(op, id, ok) == [op |-> op, task |-> id, ok |-> ok]

\* After construction: readLastId has read last.json and the first call of
\* the fetch method, made by initialize (the constructor in part_000), has
\* set isFetching and awaits the API.
NotifInit ==
    /\ nver \in NVersions
    /\ npc = "fetch"
    /\ active = 1
    /\ isFetching = TRUE
    /\ timers = 0
    /\ lastCall = "started"
    /\ diskId \in 0..MaxId
    /\ lastId = diskId
    /\ status = "undefined"
    /\ progress = -1
    /\ progressMessageId = 0
    /\ data = <<>>
    /\ todo = <<>>
    /\ latest = 0
    /\ task = NoTask
    /\ outbox = <<>>
    /\ retries = 0
    /\ swr = NoSend
    /\ log = <<>>
    /\ variant = "none" /\ featherPx = 0 /\ input = NoMat /\ pc = "off" /\ err = "none"
    /\ img = NoMat /\ bin = {} /\ clean = {} /\ contours = <<>> /\ rows = 0 /\ cols = 0
    /\ cells = <<>> /\ idx = 0 /\ results = <<>> /\ io = {}

(***************************************************************************)
(* fetchAndProcessNotifications() / getNotifications(): called by          *)
(* initialize (the constructor), by the timer of scheduleNextFetch, and,   *)
(* in part_000 only, where the method is public, by anyone.  A call made   *)
(* while isFetching is true returns at once.                               *)
(***************************************************************************)
AlreadyFetching_Never(f) == FALSE
AlreadyFetching(f) == f

Call(origin) ==
    /\ npc # "exited"
    /\ origin = "timer" => timers > 0
    /\ origin = "direct" => nver = "old"
    /\ (origin = "direct" /\ ~isFetching) => timers < MaxTimers
    /\ timers' = IF origin = "timer" THEN timers - 1 ELSE timers
    /\ IF AlreadyFetching(isFetching)
       THEN /\ lastCall' = "skipped"
            /\ UNCHANGED <<npc, active, isFetching, data, log>>
       ELSE /\ lastCall' = "started"
            /\ isFetching' = TRUE
            /\ active' = active + 1
            /\ npc' = "fetch"
            /\ data' = <<>>
            /\ log' = <<>>
    /\ UNCHANGED <<nver, lastId, diskId, status, progress, progressMessageId, todo,
                   latest, task, outbox, retries, swr>>
    /\ UNCHANGED cvVars

TimerFires == Call("timer")
DirectCall == Call("direct")

(***************************************************************************)
(* finally { this.isFetching = false; this.scheduleNextFetch(); }          *)
(* scheduleNextFetch of notif.ts clears the pending timer first; both      *)
(* versions return without a timer when isFetching is true.                *)
(***************************************************************************)
ScheduleNextFetch_StillFetching(ver, fetching, t) ==
    IF ver = "notif" THEN 0 ELSE t
ScheduleNextFetch(ver, fetching, t) ==
    LET cleared == IF ver = "notif" THEN 0 ELSE t
    IN  IF fetching THEN cleared ELSE cleared + 1

\* A return or a throw inside the try block: the finally block is next.
ToFinally ==
    /\ npc' = "finally"
    /\ UNCHANGED <<active, isFetching, timers, todo, latest, task, outbox, retries, swr>>

\* The finally block; with it the call is over and its locals are gone.
EndCycle ==
    /\ npc = "finally"
    /\ isFetching' = FALSE
    /\ active' = active - 1
    /\ timers' = ScheduleNextFetch(nver, isFetching', timers)
    /\ npc' = "idle"
    /\ lastCall' = "none"
    /\ data' = <<>>
    /\ todo' = <<>>
    /\ latest' = 0
    /\ task' = NoTask
    /\ outbox' = <<>>
    /\ log' = <<>>
    /\ UNCHANGED <<nver, lastId, diskId, status, progress, progressMessageId, retries, swr>>
    /\ UNCHANGED cvVars

(***************************************************************************)
(* clearProgressMessageIfNeeded(currentStatus): whether it calls           *)
(* deleteMessage.  notif.ts deletes for a terminal or an absent status;    *)
(* part_000 for every status but running.                                  *)
(***************************************************************************)
ShouldDelete_AnyButRunning(ver, msgId, st) == msgId # 0 /\ st # "running"
ShouldDelete(ver, msgId, st) ==
    /\ msgId # 0
    /\ IF ver = "notif" THEN st \notin {"running", "queued"} ELSE st # "running"

\* The state clearProgressMessageIfNeeded leaves when it does not delete.
ProgressIfKept(msgId, p) == IF msgId = 0 THEN -1 ELSE p

(***************************************************************************)
(* The API request returns.  notif.ts: null (a failed request), an invalid *)
(* structure and an empty data each end the cycle; part_000: a failed      *)
(* request throws, last_id === null and an invalid structure return, an    *)
(* empty data clears the progress message.  Otherwise the batch is         *)
(* reversed for processing.                                                *)
(***************************************************************************)
FetchReturns ==
    /\ npc = "fetch"
    /\ \E r \in Responses :
          /\ data' = r.data
          /\ IF r.kind = "ok" /\ r.data # <<>> /\ (nver = "notif" \/ r.last_id # "null")
             THEN /\ todo' = Reverse(r.data)
                  /\ latest' = lastId
                  /\ npc' = "item"
                  /\ UNCHANGED <<active, isFetching, timers, task, outbox, retries, swr,
                                 progress>>
             ELSE IF /\ nver = "old" /\ r.kind = "ok" /\ r.last_id # "null"
                     /\ ShouldDelete(nver, progressMessageId, "undefined")
                  THEN /\ npc' = "delete"
                       /\ UNCHANGED <<active, isFetching, timers, todo, latest, task,
                                      outbox, retries, swr, progress>>
                  ELSE /\ ToFinally
                       /\ progress' = IF nver = "old" /\ r.kind = "ok" /\ r.last_id # "null"
                                      THEN ProgressIfKept(progressMessageId, progress)
                                      ELSE progress
    /\ UNCHANGED <<nver, lastCall, lastId, diskId, status, progressMessageId, log>>
    /\ UNCHANGED cvVars

(***************************************************************************)
(* for (const item of notificationsToProcess): the next item.  An item     *)
(* without payload is skipped by notif.ts; part_000 reads payload.id of it *)
(* and the TypeError ends the cycle.  A task that is not succeeded is      *)
(* skipped.  For a succeeded task the sends are lined up: one sendSticker  *)
(* per sticker cut from the image, or one sendMediaGroup.  When fetching   *)
(* or cutting the image throws, notif.ts skips the generation and          *)
(* part_000 takes it as a failed send.                                     *)
(***************************************************************************)
SendsOf(item) ==
    IF item.crop = "throws" THEN <<>>
    ELSE [i \in 1..item.sends |->
            IF item.type = "image_gen" THEN "sendSticker" ELSE "sendMediaGroup"]

NextItem ==
    /\ npc = "item"
    /\ todo # <<>>
    /\ LET item == Head(todo)
       IN  IF ~item.payload
           THEN IF nver = "notif"
                THEN /\ todo' = Tail(todo)
                     /\ UNCHANGED <<npc, active, isFetching, timers, latest, task, outbox,
                                    retries, swr, log>>
                ELSE /\ ToFinally
                     /\ log' = Append(log, Logged("TypeError", item.id, FALSE))
           ELSE IF item.status # "succeeded"
           THEN /\ todo' = Tail(todo)
                /\ UNCHANGED <<npc, active, isFetching, timers, latest, task, outbox,
                               retries, swr, log>>
           ELSE IF item.crop = "throws" /\ nver = "old"
           THEN /\ ToFinally
                /\ log' = Append(log, Logged("crop", item.id, FALSE))
           ELSE /\ task' = item
                /\ outbox' = SendsOf(item)
                /\ UNCHANGED <<retries, swr>>
                /\ npc' = "send"
                /\ log' = IF item.crop = "throws"
                          THEN Append(log, Logged("crop", item.id, FALSE)) ELSE log
                /\ UNCHANGED <<active, isFetching, timers, todo, latest>>
    /\ UNCHANGED <<nver, lastCall, lastId, diskId, status, progress, progressMessageId, data>>
    /\ UNCHANGED cvVars

(***************************************************************************)
(* sendWithRetry(method, args, context) of notif.ts, one step per awaited  *)
(* call: the Telegram method returns a result or throws; a 429 with a      *)
(* retry_after counts a retry and, unless it is retry MAX_RETRIES, waits   *)
(* retry_after + 1 seconds before the loop calls again; every other error  *)
(* is rethrown.  swr records the calls made (their outcomes), the waits    *)
(* (in seconds) and how the function ended.                                *)
(***************************************************************************)
MaxRetries == 5

RetriesError == [k |-> "retries", v |-> MaxRetries]
ExhaustedError == [k |-> "exhausted", v |-> 0]

\* err.response?.error_code === 429 && err.response.parameters?.retry_after
IsRateLimit_AnyRetryAfter(o) == o.k = "rate"
IsRateLimit(o) == o.k = "rate" /\ o.v # 0

\* const waitMs = (retryAfter + 1) * 1000, in seconds
WaitSeconds_NoBuffer(retryAfter) == retryAfter
WaitSeconds(retryAfter) == retryAfter + 1

\* if (retries >= MAX_RETRIES) throw ..., after retries++
GivesUp_Never(n) == FALSE
GivesUp_OneLater(n) == n > MaxRetries
GivesUp(n) == n >= MaxRetries

Methods == {"sendSticker", "sendMediaGroup"}

SwrEnds(ended) ==
    /\ swr' = ended
    /\ npc' = "swr-" \o ended.end
    /\ UNCHANGED retries

SwrCall ==
    /\ npc = "swr-call"
    /\ \E o \in Outcomes :
          LET called == [swr EXCEPT !.calls = Append(@, o)]
          IN  IF o.k = "ok"
              THEN SwrEnds([called EXCEPT !.end = "returned", !.value = o])
              ELSE IF IsRateLimit(o)
              THEN IF GivesUp(retries + 1)
                   THEN /\ swr' = [called EXCEPT !.end = "threw", !.value = RetriesError]
                        /\ npc' = "swr-threw"
                        /\ retries' = retries + 1
                   ELSE /\ swr' = [called EXCEPT !.waits = Append(@, WaitSeconds(o.v))]
                        /\ retries' = retries + 1
                        /\ npc' = "swr-wait"
              ELSE SwrEnds([called EXCEPT !.end = "threw", !.value = o])
    /\ UNCHANGED <<nver, active, isFetching, timers, lastCall, lastId, diskId, status,
                   progress, progressMessageId, data, todo, latest, task, outbox, log>>
    /\ UNCHANGED cvVars

\* await new Promise((resolve) => setTimeout(resolve, waitMs)) is over: back
\* to while (retries < MAX_RETRIES); after the loop comes the last throw.
SwrWaitOver ==
    /\ npc = "swr-wait"
    /\ IF retries < MaxRetries
       THEN /\ npc' = "swr-call"
            /\ UNCHANGED <<retries, swr>>
       ELSE SwrEnds([swr EXCEPT !.end = "threw", !.value = ExhaustedError])
    /\ UNCHANGED <<nver, active, isFetching, timers, lastCall, lastId, diskId, status,
                   progress, progressMessageId, data, todo, latest, task, outbox, log>>
    /\ UNCHANGED cvVars

\* A call sendWithRetry(method, ...): const MAX_RETRIES = 5; let retries = 0.
SendInit ==
    /\ nver = "notif"
    /\ npc = "swr-call"
    /\ outbox \in {<<m>> : m \in Methods}
    /\ retries = 0
    /\ swr = NoSend
    /\ active = 0 /\ isFetching = FALSE /\ timers = 0 /\ lastCall = "none"
    /\ lastId = 0 /\ diskId = 0 /\ status = "undefined" /\ progress = -1
    /\ progressMessageId = 0 /\ data = <<>> /\ todo = <<>> /\ latest = 0
    /\ task = NoTask /\ log = <<>>
    /\ variant = "none" /\ featherPx = 0 /\ input = NoMat /\ pc = "off" /\ err = "none"
    /\ img = NoMat /\ bin = {} /\ clean = {} /\ contours = <<>> /\ rows = 0 /\ cols = 0
    /\ cells = <<>> /\ idx = 0 /\ results = <<>> /\ io = {}

SendNext == SwrCall \/ SwrWaitOver

SendSpec == SendInit /\ [][SendNext]_vars

\* The call while every awaited promise settles: the Telegram method returns
\* or throws, and the timer of a wait fires.
SendLiveSpec == SendInit /\ [][SendNext]_vars /\ WF_vars(SendNext)

(***************************************************************************)
(* One send for the task being processed comes back.  In notif.ts it is a  *)
(* call of sendWithRetry, which returns or throws: what it throws is       *)
(* caught and dropped by sendStickers (the next sticker follows) and       *)
(* rethrown by sendVideos, so that handleSucceededTask returns false and   *)
(* processNotifications returns.  part_000 calls the Telegram method       *)
(* directly: an error leaves sendStickers or the video branch, and the     *)
(* catch returns from getNotifications.                                    *)
(***************************************************************************)
\* Whether the error of a send is dropped by the sender.
Swallowed(ver, method) == ver = "notif" /\ method = "sendSticker"

SendAttempt ==
    /\ npc = "send"
    /\ outbox # <<>>
    /\ \E sent \in BOOLEAN :
          LET method == Head(outbox)
          IN  /\ log' = Append(log, Logged(method, task.id, sent))
              /\ IF sent \/ Swallowed(nver, method)
                 THEN /\ outbox' = Tail(outbox)
                      /\ UNCHANGED <<npc, active, isFetching, timers, todo, latest, task,
                                     retries, swr>>
                 ELSE IF nver = "notif"
                 THEN /\ outbox' = <<>>
                      /\ task' = NoTask
                      /\ npc' = "progress"
                      /\ UNCHANGED <<active, isFetching, timers, todo, latest, retries, swr>>
                 ELSE ToFinally
    /\ UNCHANGED <<nver, lastCall, lastId, diskId, status, progress, progressMessageId, data>>
    /\ UNCHANGED cvVars

(***************************************************************************)
(* handleSucceededTask returned true (part_000: the try block got past the *)
(* sends): the task is the latest successfully processed one, and          *)
(* clearProgressMessageIfNeeded(payload.status) follows.                   *)
(***************************************************************************)
TaskDone ==
    /\ npc = "send"
    /\ outbox = <<>>
    /\ latest' = task.id
    /\ todo' = Tail(todo)
    /\ task' = NoTask
    /\ IF ShouldDelete(nver, progressMessageId, "succeeded")
       THEN /\ npc' = "clear"
            /\ UNCHANGED progress
       ELSE /\ npc' = "item"
            /\ progress' = ProgressIfKept(progressMessageId, progress)
    /\ UNCHANGED <<nver, active, isFetching, timers, lastCall, lastId, diskId, status,
                   progressMessageId, data, outbox, retries, swr, log>>
    /\ UNCHANGED cvVars

\* await this.bot.telegram.deleteMessage(...) of that clearing returns or
\* throws: the local state is cleared either way.
ClearReturns ==
    /\ npc = "clear"
    /\ \E ok \in BOOLEAN : log' = Append(log, Logged("deleteMessage", 0, ok))
    /\ progressMessageId' = 0
    /\ progress' = -1
    /\ npc' = "item"
    /\ UNCHANGED <<nver, active, isFetching, timers, lastCall, lastId, diskId, status,
                   data, todo, latest, task, outbox, retries, swr>>
    /\ UNCHANGED cvVars

(***************************************************************************)
(* After the loop: persist the latest successfully processed id when it    *)
(* differs from lastId, then handleProgressUpdate for response.data[0].    *)
(***************************************************************************)
AfterLoop ==
    /\ npc = "item"
    /\ todo = <<>>
    /\ npc' = IF latest # 0 /\ latest # lastId THEN "persist" ELSE "progress"
    /\ UNCHANGED <<nver, active, isFetching, timers, lastCall, lastId, diskId, status,
                   progress, progressMessageId, data, todo, latest, task, outbox, retries,
                   swr, log>>
    /\ UNCHANGED cvVars

\* setLastId(id): await fs.writeFile(...) succeeds, and then this.lastId is
\* set, or throws, and the error is logged.
Persist ==
    /\ npc = "persist"
    /\ \E ok \in BOOLEAN :
          /\ lastId' = IF ok THEN latest ELSE lastId
          /\ diskId' = IF ok THEN latest ELSE diskId
          /\ log' = Append(log, Logged("writeFile", latest, ok))
    /\ npc' = "progress"
    /\ UNCHANGED <<nver, active, isFetching, timers, lastCall, status, progress,
                   progressMessageId, data, todo, latest, task, outbox, retries, swr>>
    /\ UNCHANGED cvVars

\* Math.round(payload.progress_pct * 100), progress_pct in thousandths.
RoundPct(pct) == (pct + 5) \div 10

\* Whether handleProgressUpdate sends or edits the progress message.
NeedsUpdate(ver, msgId, p, rounded) ==
    IF ver = "notif"
    THEN msgId = 0 \/ p \in {-1, 0} \/ Abs(p - rounded) >= 1
    ELSE p # rounded \/ msgId = 0

(***************************************************************************)
(* handleProgressUpdate(response.data[0].payload), up to its first         *)
(* Telegram call.  Without a payload notif.ts calls                        *)
(* clearProgressMessageIfNeeded(undefined) and part_000 does nothing.      *)
(***************************************************************************)
Progress ==
    /\ npc = "progress"
    /\ LET newest  == data[1]
           rounded == RoundPct(newest.pct)
           st      == IF newest.payload THEN newest.status ELSE "undefined"
       IN  /\ status' = IF newest.payload THEN newest.status ELSE status
           /\ IF ~newest.payload /\ nver = "old"
              THEN ToFinally /\ UNCHANGED progress
              ELSE IF newest.payload /\ st = "running" /\ newest.pct # NoPct
              THEN IF NeedsUpdate(nver, progressMessageId, progress, rounded)
                   THEN /\ progress' = rounded
                        /\ npc' = IF progressMessageId # 0 THEN "edit" ELSE "new"
                        /\ UNCHANGED <<active, isFetching, timers, todo, latest, task,
                                       outbox, retries, swr>>
                   ELSE ToFinally /\ UNCHANGED progress
              ELSE IF ShouldDelete(nver, progressMessageId, st)
                   THEN /\ npc' = "delete"
                        /\ UNCHANGED <<active, isFetching, timers, todo, latest, task,
                                       outbox, retries, swr, progress>>
                   ELSE /\ ToFinally
                        /\ progress' = ProgressIfKept(progressMessageId, progress)
    /\ UNCHANGED <<nver, lastCall, lastId, diskId, progressMessageId, data, log>>
    /\ UNCHANGED cvVars

\* editMessageText returns or throws.  "gone": 400 message to edit not
\* found; "same": 400 message is not modified.  notif.ts sends a new
\* message after either, part_000 after "gone" only.
EditOutcomes == {"ok", "gone", "same", "error"}

EditReturns ==
    /\ npc = "edit"
    /\ \E o \in EditOutcomes :
          /\ log' = Append(log, Logged("editMessageText", 0, o = "ok"))
          /\ IF o = "gone" \/ (o = "same" /\ nver = "notif")
             THEN /\ progressMessageId' = 0
                  /\ npc' = "new"
                  /\ UNCHANGED <<active, isFetching, timers, todo, latest, task, outbox,
                                 retries, swr>>
             ELSE /\ ToFinally
                  /\ UNCHANGED progressMessageId
    /\ UNCHANGED <<nver, lastCall, lastId, diskId, status, progress, data>>
    /\ UNCHANGED cvVars

\* sendMessage returns a message or throws.  notif.ts catches the error and
\* resets the progress state; in part_000 it ends the cycle.
NewReturns ==
    /\ npc = "new"
    /\ \E m \in MsgIds \cup {0} :
          /\ log' = Append(log, Logged("sendMessage", 0, m # 0))
          /\ progressMessageId' = IF m # 0 THEN m ELSE IF nver = "notif" THEN 0
                                                       ELSE progressMessageId
          /\ progress' = IF m = 0 /\ nver = "notif" THEN -1 ELSE progress
    /\ ToFinally
    /\ UNCHANGED <<nver, lastCall, lastId, diskId, status, data>>
    /\ UNCHANGED cvVars

\* deleteMessage of clearProgressMessageIfNeeded returns or throws, at the
\* end of the cycle.
DeleteReturns ==
    /\ npc = "delete"
    /\ \E ok \in BOOLEAN : log' = Append(log, Logged("deleteMessage", 0, ok))
    /\ progressMessageId' = 0
    /\ progress' = -1
    /\ ToFinally
    /\ UNCHANGED <<nver, lastCall, lastId, diskId, status, data>>
    /\ UNCHANGED cvVars

\* SIGINT or SIGTERM: process.exit(0): only last.json is left.
Shutdown ==
    /\ npc # "exited"
    /\ npc' = "exited"
    /\ active' = 0 /\ isFetching' = FALSE /\ timers' = 0 /\ lastCall' = "none"
    /\ lastId' = 0 /\ status' = "undefined" /\ progress' = -1 /\ progressMessageId' = 0
    /\ data' = <<>> /\ todo' = <<>> /\ latest' = 0 /\ task' = NoTask /\ outbox' = <<>>
    /\ log' = <<>>
    /\ UNCHANGED <<nver, diskId, retries, swr>>
    /\ UNCHANGED cvVars

CycleStep ==
    \/ FetchReturns \/ NextItem \/ SendAttempt \/ TaskDone \/ ClearReturns
    \/ AfterLoop \/ Persist \/ Progress \/ EditReturns \/ NewReturns \/ DeleteReturns
    \/ EndCycle

NotifNext == TimerFires \/ DirectCall \/ CycleStep \/ Shutdown

NotifSpec == NotifInit /\ [][NotifNext]_vars

(***************************************************************************)
(* The Notificator while no shutdown signal arrives, every awaited call    *)
(* completing (the promise settles, so the step after it is taken) and     *)
(* every pending timer of setTimeout firing.                               *)
(***************************************************************************)
NotifLiveNext == TimerFires \/ DirectCall \/ CycleStep

NotifLiveSpec ==
    NotifInit /\ [][NotifLiveNext]_vars /\ WF_vars(CycleStep) /\ WF_vars(TimerFires)

(***************************************************************************)
(* Properties.                                                             *)
(***************************************************************************)
Assigned == pc \in {"cells", "done"} \/ (pc = "failed" /\ err = "encode")
NonEmptyCells == {j \in 0..(Len(cells) - 1) : cells[j + 1] # <<>>}
ClusterOf(r) == cells[r.cell + 1]
AlphaOf(image, p) == image.data[p][AlphaIndex + 1]

\* C1: a run that returns has produced exactly one sticker for every grid
\* cell that received at least one contour and none for a cell that received
\* none, so the list is as long as the number of non-empty cells; and the
\* list is never longer than rows * cols.
C1_OneStickerPerNonEmptyCell ==
    /\ Len(results) <= rows * cols
    /\ pc = "done" =>
        /\ Len(cells) = rows * cols
        /\ \A j \in 0..(Len(cells) - 1) :
              Cardinality({i \in 1..Len(results) : results[i].cell = j})
                 = (IF Len(cells[j + 1]) >= 1 THEN 1 ELSE 0)
        /\ Len(results) = Cardinality(NonEmptyCells)

\* A run has returned from a grid with empty and non-empty cells.
C1_Witness ==
    /\ pc = "done"
    /\ Cardinality(NonEmptyCells) >= 2
    /\ Cardinality(NonEmptyCells) < rows * cols
    /\ Len(results) = rows * cols - 2

\* C2: the stickers are in row-major cell order: the cell a sticker comes
\* from is the cell row * cols + col of each of its contours, and of two
\* stickers the earlier one comes from the cell with the smaller index.
C2_RowMajorOrder ==
    /\ \A i \in 1..Len(results) :
          /\ results[i].cell \in 0..(rows * cols - 1)
          /\ ClusterOf(results[i]) # <<>>
          /\ \A n \in 1..Len(ClusterOf(results[i])) :
                LET c == ClusterOf(results[i])[n]
                IN  results[i].cell = RowOf(c, img, rows).v * cols + ColOf(c, img, cols).v
    /\ \A i, j \in 1..Len(results) : i < j => results[i].cell < results[j].cell

\* Two stickers of one run come from cells in different rows and columns.
C2_Witness ==
    /\ pc = "done"
    /\ \E i, j \in 1..Len(results) :
          /\ i < j
          /\ results[i].cell \div cols < results[j].cell \div cols
          /\ results[i].cell % cols > results[j].cell % cols

\* The cell the claim names for a contour, in exact arithmetic: a centre
\* divided by a cell width of 0 is above every column, so the minimum is
\* the last column.
ClaimedCol(c) ==
    LET r == BoundingRect(c)
        cellWidth == img.w \div cols
    IN  IF cellWidth = 0 THEN cols - 1
        ELSE Min2((2 * r.x + r.width) \div (2 * cellWidth), cols - 1)
ClaimedRow(c) ==
    LET r == BoundingRect(c)
        cellHeight == img.h \div rows
    IN  IF cellHeight = 0 THEN rows - 1
        ELSE Min2((2 * r.y + r.height) \div (2 * cellHeight), rows - 1)

\* C3: every contour is pushed into exactly one cell, the cell (row, col)
\* with col = min(floor(centerX / cellWidth), cols - 1) and
\* row = min(floor(centerY / cellHeight), rows - 1); row and col are inside
\* the grid, also when a cell side is 0, so the push never misses cells.
C3_ContourInOneExistingCell ==
    /\ err # "type"
    /\ Assigned =>
        /\ Len(cells) = rows * cols
        /\ \A i \in 1..Len(contours) :
              LET c == contours[i]
                  row == ClaimedRow(c)
                  col == ClaimedCol(c)
              IN  /\ row \in 0..(rows - 1)
                  /\ col \in 0..(cols - 1)
                  /\ \A j \in 1..Len(cells) :
                        Cardinality({n \in 1..Len(cells[j]) : cells[j][n] = c})
                           = (IF j = row * cols + col + 1 THEN 1 ELSE 0)

\* Contours were assigned on an image narrower than the grid has columns.
C3_Witness ==
    /\ pc = "cells"
    /\ img.w < cols
    /\ CellW(img, cols) = 0
    /\ Len(contours) >= 1
    /\ \E j \in 1..Len(cells) : Len(cells[j]) >= 1

Inside(inner, outer) ==
    /\ outer.x <= inner.x
    /\ outer.y <= inner.y
    /\ inner.x + inner.width <= outer.x + outer.width
    /\ inner.y + inner.height <= outer.y + outer.height

\* C4: the contours of one cell make one sticker, whose crop is the union
\* bounding box of their bounding boxes: it contains the box of every
\* contour of the cell and, on each of its four sides, ends where the
\* outermost of them ends.
C4_CropIsUnionBox ==
    \A i \in 1..Len(results) :
        LET r == results[i]
            boxes == {BoundingRect(ClusterOf(r)[n]) : n \in 1..Len(ClusterOf(r))}
        IN  /\ \A j \in 1..Len(results) : results[j].cell = r.cell => j = i
            /\ r.image.w = r.region.width
            /\ r.image.h = r.region.height
            /\ \A b \in boxes : Inside(b, r.region)
            /\ \E b \in boxes : b.x = r.region.x
            /\ \E b \in boxes : b.y = r.region.y
            /\ \E b \in boxes : b.x + b.width = r.region.x + r.region.width
            /\ \E b \in boxes : b.y + b.height = r.region.y + r.region.height

\* A sticker was made of two contours, and neither box contains the other.
C4_Witness ==
    \E i \in 1..Len(results) :
        LET cl == ClusterOf(results[i])
        IN  /\ Len(cl) >= 2
            /\ \A n \in 1..Len(cl) : BoundingRect(cl[n]) # results[i].region

\* C5: an image whose channel count is neither 3 nor 4 makes the run fail
\* with the format error at the channel check: no mask, no contour, no cell
\* and no sticker is ever computed for it.
C5_UnsupportedChannelsRejected ==
    (input.ch \notin {3, 4} /\ pc # "start") =>
        /\ pc = "failed"
        /\ err = "format"
        /\ img = NoMat
        /\ clean = {}
        /\ contours = <<>>
        /\ cells = <<>>
        /\ results = <<>>

\* A run on a 5-channel image has failed.
C5_Witness == pc = "failed" /\ err = "format" /\ input.ch = 5

Reached == FloodFillMask(input)
AlphaIsInvertedFill ==
    LET reached == Reached
        zeros   == Explicit({p \in Pixels(img.w, img.h) : img.px[p][AlphaIndex + 1] = 0})
        full    == Explicit({p \in Pixels(img.w, img.h) : img.px[p][AlphaIndex + 1] = MaxSample})
    IN  /\ img.w = input.w /\ img.h = input.h /\ img.ch = 4
        /\ \A p \in Pixels(input.w, input.h) :
              \A c \in 1..3 : img.px[p][c] = input.px[p][c]
        /\ zeros = reached
        /\ full = Pixels(input.w, input.h) \ reached
        /\ (reached # Pixels(input.w, input.h)) => (zeros # {} /\ full # {})

\* C6 as claimed: a 3-channel input never fails; it is given an alpha channel
\* that is 0 exactly at the pixels the flood fill reaches and 255 elsewhere.
C6_Claimed_ThreeChannelsNeverFail ==
    (input.ch = 3 /\ pc # "start") => (err # "format" /\ AlphaIsInvertedFill)

\* C6: in the version with the fallback (part_001) a 3-channel input does not
\* fail: the colour channels are kept and the alpha channel added is 0 exactly
\* at the pixels the flood fill from (0,0) reaches and 255 at every other
\* pixel, so it is neither all 0 nor all 255 when some pixel is not reached.
\* The versions of part_002 and index.ts reject every 3-channel input.
C6_FallbackAddsInvertedFillAlpha ==
    (input.ch = 3 /\ pc # "start") =>
        IF HasFallback(variant)
        THEN err # "format" /\ AlphaIsInvertedFill
        ELSE pc = "failed" /\ err = "format" /\ results = <<>>

\* The fallback has run on an image with background-connected pixels and
\* pixels the fill does not reach, and a sticker was cut from it.
C6_Witness ==
    /\ input.ch = 3
    /\ variant = "adaptive"
    /\ pc = "done"
    /\ Reached # Pixels(input.w, input.h)
    /\ Cardinality(Reached) > 1
    /\ results # <<>>

\* C7 as claimed: when the encoder fails for one cell, that cell alone is
\* skipped: the run is not aborted.
C7_Claimed_FailedCellIsSkipped ==
    ~ (/\ pc = "failed"
       /\ err = "encode"
       /\ \E j \in NonEmptyCells : j # CellAt(idx, Len(cells)))

\* C9: with featherPx = 0 the blur kernel has size 1, the blurred mask is the
\* local mask itself, and the alpha of every pixel of every sticker is 0 or
\* 255.
C9_NoFeatherGivesBinaryAlpha ==
    featherPx = 0 =>
        /\ BlurKernelSize(featherPx) = 1
        /\ \A i \in 1..Len(results) :
              LET r == results[i]
                  mask == StickerMask(variant, ClusterOf(r), img, r.region)
              IN  \A p \in Pixels(r.image.w, r.image.h) :
                     /\ AlphaOf(r.image, p) \in {0, MaxSample}
                     /\ AlphaOf(r.image, p) = MaxSample <=> p \in mask

\* A sticker made with featherPx = 0 has transparent and opaque pixels.
C9_Witness ==
    /\ featherPx = 0
    /\ \E i \in 1..Len(results) :
          /\ \E p \in Pixels(results[i].image.w, results[i].image.h) :
                AlphaOf(results[i].image, p) = 0
          /\ \E p \in Pixels(results[i].image.w, results[i].image.h) :
                AlphaOf(results[i].image, p) = MaxSample

SourceAlpha(r, p) == img.px[<<p[1] + r.region.x, p[2] + r.region.y>>][AlphaIndex + 1]
HolesKept(r) ==
    \A p \in Pixels(r.image.w, r.image.h) :
        SourceAlpha(r, p) = 0 => AlphaOf(r.image, p) = 0

\* C10 as claimed: with featherPx = 0, every pixel of a crop whose source
\* alpha is 0 has alpha 0 in the sticker, in every version.
C10_Claimed_HolesPreserved ==
    featherPx = 0 => \A i \in 1..Len(results) : HolesKept(results[i])

\* C10: in the versions that rebuild the mask from the crop's own alpha
\* channel (part_001, part_002), with featherPx = 0 every pixel of a crop
\* whose source alpha is 0 has alpha 0 in the sticker, a hole enclosed by the
\* object included.  (index.ts fills the contours instead, and an enclosed
\* hole comes out opaque.)
C10_CropAlphaKeepsHoles ==
    (featherPx = 0 /\ variant # "script") =>
        \A i \in 1..Len(results) : HolesKept(results[i])

\* A sticker whose crop holds a transparent pixel with opaque pixels all
\* around it was made from the crop's own alpha.
C10_Witness ==
    /\ featherPx = 0
    /\ variant # "script"
    /\ \E i \in 1..Len(results) :
          LET r == results[i]
          IN  \E p \in Pixels(r.image.w, r.image.h) :
                 /\ SourceAlpha(r, p) = 0
                 /\ AlphaOf(r.image, p) = 0
                 /\ \A q \in Pixels(r.image.w, r.image.h) :
                       (q # p /\ Adjacent8(p, q)) =>
                          (SourceAlpha(r, q) = MaxSample /\ AlphaOf(r.image, q) = MaxSample)
                 /\ Cardinality({q \in Pixels(r.image.w, r.image.h) : Adjacent8(p, q)}) = 9

Thresholded == pc \in {"contours", "cells", "done"} \/ (pc = "failed" /\ err \in {"type", "encode"})
AlphaAbove(m, t) == Explicit({p \in Pixels(m.w, m.h) : m.px[p][AlphaIndex + 1] > t})
CropOf(r) == GetRegion(img, r.region)
HasAlphaOne(m) == \E p \in Pixels(m.w, m.h) : m.px[p][AlphaIndex + 1] = 1

\* C11 as claimed: in the global and in the per-crop binary mask, before the
\* opening, a pixel is 255 if and only if its alpha is greater than 0.
C11_Claimed_ForegroundIsAlphaAboveZero ==
    /\ Thresholded => bin = AlphaAbove(img, 0)
    /\ \A i \in 1..Len(results) :
          variant # "script" => results[i].maskBin = AlphaAbove(CropOf(results[i]), 0)

\* C11: in the global binary mask (every version) and in the per-crop binary
\* mask (part_001, part_002), before the opening, a pixel is 255 if and only
\* if its alpha is greater than 1: alpha 2..255 is foreground, alpha 0 and
\* alpha 1 are background.
C11_ForegroundIsAlphaAboveOne ==
    /\ Thresholded => bin = AlphaAbove(img, 1)
    /\ \A i \in 1..Len(results) :
          variant # "script" => results[i].maskBin = AlphaAbove(CropOf(results[i]), 1)

\* A sticker was cut, from the crop's own alpha, out of a crop that holds a
\* pixel of alpha 1 next to foreground pixels.
C11_Witness ==
    /\ variant # "script"
    /\ HasAlphaOne(img)
    /\ bin # {}
    /\ \E i \in 1..Len(results) :
          /\ HasAlphaOne(CropOf(results[i]))
          /\ results[i].maskBin # {}
          /\ results[i].maskBin # Pixels(results[i].image.w, results[i].image.h)

CentreInCell(c, row, col) ==
    LET r  == BoundingRect(c)
        cw == img.w \div cols
        chh == img.h \div rows
        cx2 == 2 * r.x + r.width
        cy2 == 2 * r.y + r.height
    IN  /\ cw > 0 /\ chh > 0
        /\ 2 * col * cw <= cx2
        /\ (col < cols - 1) => cx2 < 2 * (col + 1) * cw
        /\ 2 * row * chh <= cy2
        /\ (row < rows - 1) => cy2 < 2 * (row + 1) * chh

BlobsIn(row, col) == {i \in 1..Len(contours) : CentreInCell(contours[i], row, col)}

OneBlobPerCell ==
    /\ rows >= 1 /\ cols >= 1
    /\ \A row \in 0..(rows - 1), col \in 0..(cols - 1) : Cardinality(BlobsIn(row, col)) = 1

\* C13: when every cell of the rows x cols grid contains the centre of
\* exactly one blob, a run that returns has made exactly rows * cols
\* stickers, and the k-th of them (k counted row by row) is the crop of the
\* bounding box of the blob in the k-th cell.
C13_OneBlobPerCellGivesFullGrid ==
    (pc = "done" /\ OneBlobPerCell) =>
        /\ Len(results) = rows * cols
        /\ \A row \in 0..(rows - 1), col \in 0..(cols - 1) :
              LET k    == row * cols + col + 1
                  blob == contours[CHOOSE i \in BlobsIn(row, col) : TRUE]
              IN  /\ results[k].region = BoundingRect(blob)
                  /\ results[k].image.w = BoundingRect(blob).width
                  /\ results[k].image.h = BoundingRect(blob).height
                  /\ results[k].image = Sticker(variant, <<blob>>, img, featherPx)

\* Nine separate blobs, one in each cell of the default 3 x 3 grid, came out
\* as nine stickers.
C13_Witness ==
    /\ pc = "done"
    /\ rows = DefaultGrid /\ cols = DefaultGrid
    /\ OneBlobPerCell
    /\ Len(contours) = 9
    /\ Len(results) = 9

C15_Claimed_NoNetworkNoFileWrite == io \cap {"network", "file-write"} = {}

\* C15: cropFeatheredStickers of part_001 and part_002 is given a url and
\* performs exactly one kind of I/O, the network request that fetches the
\* image, as its first step; it never writes a file.  That of index.ts never
\* uses the network: it reads the input file and writes a file for every
\* sticker it makes.
C15_NetworkFetchThenNoIO ==
    IF variant = "script"
    THEN /\ io \subseteq {"file-read", "file-write"}
         /\ pc # "start" => "file-read" \in io
         /\ "file-write" \in io <=> results # <<>>
    ELSE /\ io \subseteq {"network"}
         /\ pc # "start" => io = {"network"}

\* A run of part_001 fetched its image and returned stickers as buffers.
C15_Witness ==
    /\ variant = "adaptive"
    /\ pc = "done"
    /\ results # <<>>
    /\ \A i \in 1..Len(results) : results[i].sink = "buffer"
    /\ io = {"network"}

(***************************************************************************)
(* Properties of the Notificator.                                          *)
(***************************************************************************)
SwrEnded == swr.end # "none"
CallsMade == Len(swr.calls)
WaitsMade == Len(swr.waits)
IsOk(o) == o.k = "ok"
Is429(o) == o.k = "rate"
Retryable(o) == o.k = "rate" /\ o.v >= 1

\* C16 as stated: sendWithRetry returns the result of the first successful
\* call; every call that fails with a 429 is followed by a wait of
\* retry_after + 1 seconds and by another call; a call that fails with any
\* other error ends the function with that same error, no wait and no call
\* after it.
C16_Claimed_Every429WaitsAndCallsAgain ==
    SwrEnded =>
        /\ \A i \in 1..CallsMade :
              /\ Is429(swr.calls[i]) =>
                    /\ i < CallsMade
                    /\ i <= WaitsMade
                    /\ swr.waits[i] = swr.calls[i].v + 1
              /\ IsOk(swr.calls[i]) =>
                    i = CallsMade /\ swr.end = "returned" /\ swr.value = swr.calls[i]
              /\ (~Is429(swr.calls[i]) /\ ~IsOk(swr.calls[i])) =>
                    /\ i = CallsMade
                    /\ swr.end = "threw"
                    /\ swr.value = swr.calls[i]
                    /\ WaitsMade = i - 1

\* C16: sendWithRetry returns the result of the first successful call; a
\* call that fails with a 429 carrying a non-zero retry_after is followed by
\* a wait of retry_after + 1 seconds and by another call, unless it is the
\* fifth call, after which a new error is thrown without waiting; a call
\* that fails in any other way, a 429 without retry_after included, ends the
\* function with that same error, no wait and no call after it.
C16_RetryOn429WithRetryAfterUpToFiveCalls ==
    /\ \A i \in 1..WaitsMade :
          Retryable(swr.calls[i]) /\ swr.waits[i] = swr.calls[i].v + 1
    /\ ~SwrEnded => WaitsMade \in {CallsMade, CallsMade - 1}
    /\ SwrEnded =>
          /\ CallsMade >= 1
          /\ WaitsMade = CallsMade - 1
          /\ LET last == swr.calls[CallsMade]
             IN  /\ swr.end = "returned" <=> IsOk(last)
                 /\ IsOk(last) => swr.value = last
                 /\ Retryable(last) => CallsMade = MaxRetries /\ swr.value = RetriesError
                 /\ (~IsOk(last) /\ ~Retryable(last)) =>
                       swr.end = "threw" /\ swr.value = last

\* A call that returned on its third try, after waiting 2 and 3 seconds for
\* the rate limits of 1 and 2 seconds.
C16_Witness ==
    /\ swr.end = "returned"
    /\ CallsMade = 3
    /\ swr.waits = <<2, 3>>

\* What a call of the fetch method may change when it returns at once: the
\* state of the Notificator, the cycle in progress and the calls it has made.
CycleState ==
    <<npc, active, isFetching, lastId, diskId, status, progress, progressMessageId, data,
      todo, latest, task, outbox, log>>

\* C17: at most one fetch cycle is in progress at any time, isFetching being
\* true exactly while one is; and a call of the fetch method made while
\* isFetching is true, by a timer or directly, issues no request, leaves
\* lastId (in memory and on disk), status, the progress state and the cycle
\* in progress as they are, and adds no timer.
C17_OneCycleAtATime ==
    /\ [](active <= 1 /\ (isFetching <=> active = 1))
    /\ [][(isFetching /\ (TimerFires \/ DirectCall)) =>
             (UNCHANGED CycleState /\ timers' <= timers)]_vars

\* A call made in the middle of the sends of a cycle was turned away.
C17_Witness ==
    /\ isFetching
    /\ npc = "send"
    /\ lastCall = "skipped"

\* C18: every step that ends a fetch cycle, however the cycle went, sets
\* isFetching to false and leaves a timer for the next fetch pending; every
\* cycle that starts ends; and, as long as every awaited call completes and
\* no shutdown signal arrives, a new cycle starts again and again.
C18_EveryCycleEndsAndSchedules ==
    /\ [][(isFetching /\ ~isFetching') => (npc = "finally" /\ timers' >= 1)]_vars
    /\ (isFetching ~> ~isFetching)
    /\ []<>(npc = "fetch")

\* A cycle whose newest task had succeeded has ended in its finally block,
\* lastId is set and the timer of the next cycle is pending.
C18_Witness ==
    /\ npc = "idle"
    /\ ~isFetching
    /\ timers >= 1
    /\ lastId # 0
    /\ status = "succeeded"

IsSend(e) == e.op \in {"sendSticker", "sendMediaGroup"}
FailedSends == {i \in 1..Len(log) : IsSend(log[i]) /\ ~log[i].ok}
InLoop == npc \in {"item", "send", "clear"}

\* C19 as stated: once a send for a succeeded task of the batch has failed,
\* the loop over the batch is left with that task still at the head of what
\* was to be processed, nothing is sent and last.json is not written after
\* the failure, and lastId, in memory and on disk, keeps its value until the
\* cycle is over.
C19_Claimed_FailedSendStopsTheBatch ==
    /\ [](\A i \in FailedSends :
             /\ ~InLoop /\ npc # "persist"
             /\ todo # <<>> /\ Head(todo).id = log[i].task
             /\ \A j \in (i + 1)..Len(log) : ~IsSend(log[j]) /\ log[j].op # "writeFile")
    /\ [][(FailedSends # {} /\ npc' # "exited") =>
             (lastId' = lastId /\ diskId' = diskId)]_vars

\* The loop over the batch was left at a task one of whose sends failed.
StoppedMidway ==
    /\ ~InLoop
    /\ todo # <<>>
    /\ \E i \in FailedSends : log[i].task = Head(todo).id

\* What is still to be processed is the newest part of the batch, oldest
\* first.
OldestFirst ==
    \E k \in 0..Len(data) : todo = Reverse(SubSeq(data, 1, k))

\* C20 as stated: the batch is processed oldest first and, when processing
\* has stopped midway because a send failed, the cycle ends with lastId, in
\* memory and on disk, set to the id of the last notification successfully
\* processed before the failure.
C20_Claimed_LastIdSetToLastProcessedOnStop ==
    /\ (isFetching /\ npc # "fetch") => OldestFirst
    /\ (npc = "finally" /\ StoppedMidway) => (lastId = latest /\ diskId = latest)

\* The ids of the succeeded tasks of the batch, and the newest of them.
SucceededIds ==
    {data[i].id : i \in {j \in 1..Len(data) : data[j].payload /\ data[j].status = "succeeded"}}
NewestOf(S) == CHOOSE x \in S : \A y \in S : y <= x
SendFailedFor(id, l) == \E i \in 1..Len(l) : IsSend(l[i]) /\ ~l[i].ok /\ l[i].task = id
BatchFailures ==
    {i \in 1..Len(log) :
        log[i].op \in {"sendSticker", "sendMediaGroup", "crop", "TypeError", "writeFile"}
        /\ ~log[i].ok}

\* C21 as stated: lastId, in memory and on disk, only ever changes to the id
\* of a succeeded task of the batch none of whose sends failed, so an item
\* that is queued, running, failed or without payload never changes it; and
\* a batch processed without a failure ends with lastId at the id of its
\* newest succeeded task.
C21_Claimed_LastIdOnlyToSucceededAndSent ==
    /\ [][(lastId' # lastId /\ npc' # "exited") =>
             /\ lastId' \in SucceededIds
             /\ ~SendFailedFor(lastId', log')
             /\ diskId' = lastId']_vars
    /\ []((npc = "finally" /\ BatchFailures = {} /\ SucceededIds # {}) =>
             lastId = NewestOf(SucceededIds))

SendsInLog == {i \in 1..Len(log) : IsSend(log[i])}

\* C22: while a batch is processed, what is still to be handled is the
\* newest part of response.data in reverse, so the notifications are taken
\* oldest first; and every send made for an older task of the batch comes
\* before every send made for a newer one, none being made for a task that
\* is still to be handled after the current one.
C22_HandledInReverseOfApiOrder ==
    /\ (isFetching /\ npc # "fetch") =>
          \E k \in 0..Len(data) :
             /\ Len(todo) = k
             /\ \A i \in 1..k : todo[i] = data[k + 1 - i]
    /\ \A i \in SendsInLog, j \in SendsInLog : i < j => log[i].task <= log[j].task
    /\ \A i \in SendsInLog, n \in 1..Len(todo) : log[i].task <= todo[n].id

\* The newer task of a batch of two is being sent after the sticker of the
\* older one went out.
C22_Witness ==
    /\ Len(data) = 2
    /\ Len(log) = 2
    /\ log[1] = Logged("sendSticker", data[2].id, TRUE)
    /\ IsSend(log[2]) /\ log[2].task = data[1].id
    /\ data[2].id < data[1].id

\* C23: sendWithRetry terminates, by returning or by throwing; it never
\* calls the Telegram method more than MAX_RETRIES = 5 times; and when the
\* fifth call fails with a rate limit too it has thrown its "after 5
\* retries" error with four waits behind it, none after the fifth call.
C23_TerminatesWithinFiveCalls ==
    /\ <>SwrEnded
    /\ [](CallsMade <= MaxRetries /\ retries <= MaxRetries)
    /\ []((CallsMade = MaxRetries /\ Retryable(swr.calls[MaxRetries])) =>
             /\ swr.end = "threw"
             /\ swr.value = RetriesError
             /\ WaitsMade = MaxRetries - 1
             /\ npc = "swr-threw")

\* Five calls were turned away by a rate limit and the function threw.
C23_Witness ==
    /\ CallsMade = MaxRetries
    /\ \A i \in 1..MaxRetries : Retryable(swr.calls[i])
    /\ swr.end = "threw"

\* C24: the throw after the while loop of sendWithRetry is never reached: a
\* wait is only ever begun with retries below MAX_RETRIES, so the loop
\* condition holds when the wait is over, and the function ends by the
\* return or by one of the two throws inside the loop.
C24_ThrowAfterLoopUnreachable ==
    /\ npc = "swr-wait" => retries < MaxRetries
    /\ swr.value # ExhaustedError
    /\ SwrEnded => (IsOk(swr.value) \/ swr.value = RetriesError
                    \/ swr.value = swr.calls[CallsMade])

\* The last wait the loop can begin is under way: four rate limits,
\* four waits, and the function has not ended.
C24_Witness ==
    /\ npc = "swr-wait"
    /\ retries = MaxRetries - 1
    /\ WaitsMade = MaxRetries - 1
    /\ ~SwrEnded

\* The cycle is over and handleProgressUpdate was called in it with the
\* payload of response.data[0]: notif.ts calls it after every batch,
\* part_000 when nothing stopped the batch.
StoppedBatch ==
    \E i \in 1..Len(log) :
       log[i].op \in {"sendSticker", "sendMediaGroup", "crop", "TypeError"} /\ ~log[i].ok
ProgressHandled ==
    /\ npc = "finally"
    /\ data # <<>>
    /\ data[1].payload
    /\ nver = "old" => ~StoppedBatch
NotRunning == data[1].status # "running"
KeepsMessage == nver = "notif" /\ data[1].status = "queued"
LeavesStep(at) == npc = at /\ npc' \notin {at, "exited"}
DeleteLogged == log' = Append(log, Logged("deleteMessage", 0, TRUE))
                \/ log' = Append(log, Logged("deleteMessage", 0, FALSE))

RunningWithPct ==
    /\ data # <<>>
    /\ data[1].payload
    /\ data[1].status = "running"
    /\ data[1].pct # NoPct

\* C26 as stated: for a running task handleProgressUpdate goes on to send
\* or to edit the progress message exactly when no progress message exists
\* or the rounded percentage differs from the recorded one; otherwise, 0%
\* included, it returns without a Telegram call and without a change.
C26_Claimed_NoCallWhenSamePercentage ==
    [][(LeavesStep("progress") /\ RunningWithPct) =>
          IF progressMessageId = 0 \/ progress # RoundPct(data[1].pct)
          THEN /\ npc' = IF progressMessageId = 0 THEN "new" ELSE "edit"
               /\ progress' = RoundPct(data[1].pct)
          ELSE /\ npc' = "finally"
               /\ log' = log
               /\ progress' = progress
               /\ progressMessageId' = progressMessageId]_vars

(***************************************************************************)
(* Properties of the compositing.                                          *)
(***************************************************************************)
ColourChannels == 1..AlphaIndex
SourceColour(r, p, ch) == img.px[<<p[1] + r.region.x, p[2] + r.region.y>>][ch]
BlurredMask(r) ==
    Feather(StickerMask(variant, ClusterOf(r), img, r.region),
            r.region.width, r.region.height, featherPx)

\* C27: in every sticker produced, the alpha of a pixel is the value m of
\* the blurred mask there, and each colour sample v made from the source
\* sample c is the integer nearest to c * m / 255: it lies in 0..255, is at
\* most c, is 0 where m is 0 and is c where m is 255.
C27_ColourIsSourceTimesCoverageRounded ==
    \A i \in 1..Len(results) :
       LET r    == results[i]
           blur == BlurredMask(r)
       IN  \A p \in Pixels(r.image.w, r.image.h) :
              LET m == AlphaOf(r.image, p)
              IN  /\ m = blur[p]
                  /\ m \in 0..MaxSample
                  /\ \A ch \in ColourChannels :
                        LET c == SourceColour(r, p, ch)
                            v == r.image.data[p][ch]
                        IN  /\ 2 * Abs(MaxSample * v - c * m) < MaxSample
                            /\ v \in 0..MaxSample
                            /\ v <= c
                            /\ m = 0 => v = 0
                            /\ m = MaxSample => v = c

\* A feathered sticker has a pixel of partial coverage whose colour sample
\* was rounded up to lie strictly between 0 and the source sample, next to
\* fully covered and uncovered pixels.
C27_Witness ==
    /\ featherPx > 0
    /\ \E i \in 1..Len(results) :
          LET r == results[i]
          IN  /\ \E p \in Pixels(r.image.w, r.image.h), ch \in ColourChannels :
                    LET m == AlphaOf(r.image, p)
                        c == SourceColour(r, p, ch)
                        v == r.image.data[p][ch]
                    IN  /\ 0 < m /\ m < MaxSample
                        /\ 0 < v /\ v < c
                        /\ MaxSample * v > c * m
              /\ \E p \in Pixels(r.image.w, r.image.h) : AlphaOf(r.image, p) = MaxSample
              /\ \E p \in Pixels(r.image.w, r.image.h) : AlphaOf(r.image, p) = 0

====
